---- MODULE Spec2Model ----
(***************************************************************************)
(* The matching-and-mutation engine of Visual-Photo-Renamer                *)
(* (src/renamerV4.py; src/renamerV2_gui.py has the same FileRenamerCore    *)
(* and restore_backup), driven as FileRenamerGUI drives it: scan_files     *)
(* (a new FileRenamerCore and its scan), find_pairs (find_pairs and        *)
(* generate_rename_plan), rename_files (execute_rename, then reset_gui)    *)
(* and restore_backup, over a RAW directory, a JPG directory and the       *)
(* backup logs written into the RAW directory.                             *)
(*                                                                         *)
(* Spec is the program from its start. SpecRestore is restore_backup       *)
(* given any backup log an earlier batch can have left in the directory.   *)
(* SpecPairs is FileRenamerCore on its own, called in any order, over any  *)
(* fingerprints, suffixes and threshold. SpecScan is its scan_files over   *)
(* folder paths that are directories, other things or missing, and over    *)
(* directories that hold more than images. SpecGui is FileRenamerGUI with  *)
(* its pairing threads: every find_pairs click starts a thread, whose      *)
(* steps interleave with the buttons and with the callbacks it hands to    *)
(* the main loop by root.after. SpecGuiFair adds that every started thread *)
(* and the main loop keep running.                                         *)
(***************************************************************************)
EXTENDS Integers, Sequences, FiniteSets, TLC

\* ------------------------------------------------------------------ bounds
\* number of RAW files in the RAW directory at the start
MaxRaw == 2
\* number of bits of a fingerprint (HASH_SIZE = 16 gives 256 in the program)
HashBits == 1
\* number of distinct values of strftime("%Y%m%d_%H%M%S") the clock gives
MaxStamp == 2
\* number of execute_rename calls in one behaviour
MaxBatches == 2
\* number of restore_backup calls in one behaviour
MaxRestores == 2
\* number of renames the operating system refuses in one call
MaxDenied == 1
\* highest position of the similarity slider (its lowest is 1)
MaxThreshold == 1
\* number of pairing worker threads started in one behaviour
MaxWorkers == 2
\* number of execute_rename calls in one behaviour with worker threads
MaxGuiBatches == 1

\* --------------------------------------------------------- paths and files
RAW_EXTENSIONS == {".cr2", ".nef", ".arw", ".dng", ".raf", ".orf", ".rw2", ".pef", ".srw"}
JPG_EXTENSIONS == {".jpg", ".jpeg"}
\* str.lower on the suffixes of this module's files
Lower(suffix) ==
  CASE suffix = ".CR2" -> ".cr2"
    [] suffix = ".NEF" -> ".nef"
    [] suffix = ".JPG" -> ".jpg"
    [] suffix = ".JPEG" -> ".jpeg"
    [] OTHER -> suffix

\* stems of the RAW files at the start: file i is RawStemPool[i] + RawExtPool[i]
RawStemPool == <<"IMG_1", "IMG_2", "IMG_3", "IMG_4", "IMG_5">>
RawExtPool == <<".CR2", ".CR2", ".nef", ".CR2", ".nef">>
\* an entry under a directory: name, kind, depth below the directory (1 for a
\* direct child) and what the hash primitive gives for it
Entry(stem, suffix, is_file, depth, fp) ==
  [stem |-> stem, suffix |-> suffix, is_file |-> is_file, depth |-> depth, fp |-> fp]
\* the JPG directory, in the order iterdir lists it
JpgDir == << Entry("Wedding_042", ".jpg", TRUE, 1, [ok |-> TRUE, bits |-> {}]),
             Entry("Wedding_043", ".JPG", TRUE, 1, [ok |-> TRUE, bits |-> 1..HashBits]) >>

\* what else can be under the RAW directory: a subdirectory named like a RAW
\* file, a RAW file inside it, a JPG and a text file
RawOtherPool ==
  { Entry("old", ".CR2", FALSE, 1, [ok |-> FALSE, bits |-> {}]),
    Entry("IMG_9", ".CR2", TRUE, 2, [ok |-> TRUE, bits |-> {}]),
    Entry("Wedding_042", ".jpg", TRUE, 1, [ok |-> TRUE, bits |-> {}]),
    Entry("notes", ".txt", TRUE, 1, [ok |-> FALSE, bits |-> {}]) }

FileIds == 1..MaxRaw
NoFile == 0
RawStems == {RawStemPool[i] : i \in FileIds}
JpgStems == {JpgDir[i].stem : i \in 1..Len(JpgDir)}
\* the suffixes of the RAW files at the start
InitExts == {RawExtPool[i] : i \in FileIds}
\* the suffixes a RAW file of this module can have
Exts == {RawExtPool[i] : i \in 1..Len(RawExtPool)} \cup {Lower(RawExtPool[i]) : i \in 1..Len(RawExtPool)}
\* a path inside the RAW directory: <<stem, suffix>>
RawPaths == (RawStems \cup JpgStems) \X Exts
InitPath(i) == <<RawStemPool[i], RawExtPool[i]>>

\* what calculate_image_hash returns: a fingerprint, or None
Fingerprints == {[ok |-> TRUE, bits |-> b] : b \in SUBSET (1..HashBits)}
NoHash == [ok |-> FALSE, bits |-> {}]
Stamps == 1..MaxStamp

VARIABLES
  fs,                   \* RAW directory: path -> file id, NoFile when absent
  logs,                 \* rename_backup_<stamp>.json files of the RAW directory:
                        \* stamp -> content, for the stamps whose file exists
  rawfp,                \* what the hash primitive gives for each RAW file
  platform,             \* "posix" or "windows": os.rename onto an existing path
  raw_dir_exists,       \* raw_folder_path.exists()
  jpg_dir_exists,       \* jpg_folder_path.exists()
  raw_is_dir,           \* raw_folder_path is a directory: iterdir lists it
  jpg_is_dir,           \* jpg_folder_path is a directory: iterdir lists it
  raw_other,            \* what is under the RAW directory besides fs and logs
  jpg_dir,              \* what is under the JPG directory, in iterdir's order
  renamer_core,         \* FileRenamerGUI.renamer_core: "None" or "core"
  similarity_threshold, \* renamer_core.similarity_threshold
  raw_files,            \* renamer_core.raw_files
  jpg_files,            \* renamer_core.jpg_files (indices into jpg_dir)
  pairs,                \* renamer_core.pairs
  log_file,             \* renamer_core.log_file (a stamp, 0 for None)
  rename_plan,          \* FileRenamerGUI.rename_plan
  find_pairs_button,    \* state of the button: TRUE for tk.NORMAL
  rename_button,        \* state of the button: TRUE for tk.NORMAL
  batches,              \* execute_rename calls so far
  restores,             \* restore_backup calls so far
  last,                 \* the call that ended last: input, loop trace, result
  stale,                \* whether the pair list, the plan come from a scan
                        \* older than the most recent one
  threads,              \* the pairing worker threads started so far
  heap,                 \* FileRenamerCore objects that renamer_core has let go
                        \* of while a worker is running find_pairs on them
  after_queue,          \* callbacks given to root.after(0, ...) and not run yet
  progress              \* the progress bar: its value and the context that set it

core == <<renamer_core, similarity_threshold, raw_files, jpg_files, pairs, log_file>>
world == <<rawfp, platform, raw_dir_exists, jpg_dir_exists, raw_is_dir, jpg_is_dir,
           raw_other, jpg_dir>>
gui == <<threads, heap, after_queue, progress>>
vars == <<fs, logs, world, core, rename_plan, find_pairs_button, rename_button,
          batches, restores, last, stale, gui>>

\* ------------------------------------------------------------ sequences
Range(s) == {s[i] : i \in 1..Len(s)}
Perms(S) == {s \in [1..Cardinality(S) -> S] : Range(s) = S}

\* a call record: the operation, the log stamp it wrote or read, the list it
\* looped over, the loop's state before each iteration and after the last,
\* whether the call ended by raising, the operation that ended before it and,
\* for restore_backup, the record of that call
Call(op, stamp, input, trace, raised, after, prior) ==
  [op |-> op, stamp |-> stamp, input |-> input, trace |-> trace, raised |-> raised,
   after |-> after, prior |-> prior]
NoPrior == [op |-> "none", stamp |-> 0, input |-> <<>>, trace |-> <<>>,
            raised |-> FALSE, after |-> "none"]
NoCall == Call("init", 0, <<>>, <<>>, FALSE, "none", NoPrior)
Prior(c) == [op |-> c.op, stamp |-> c.stamp, input |-> c.input, trace |-> c.trace,
             raised |-> c.raised, after |-> c.after]

\* ------------------------------------------------------------- Hash Oracle
\* imagehash's ImageHash.__sub__: the number of differing bits
Distance(a, b) == Cardinality((a.bits \ b.bits) \cup (b.bits \ a.bits))
\* float('inf'): above every distance
Infinity == HashBits + 1

\* calculate_image_hash on a path of the RAW directory: None when the file
\* cannot be opened or decoded
RawHash(dir, p) == IF dir[p] = NoFile THEN NoHash ELSE rawfp[dir[p]]
\* calculate_image_hash on an entry of the JPG directory
JpgHash(j) == jpg_dir[j].fp

\* -------------------------------------------------------------- scan_files
Present(dir) == {p \in RawPaths : dir[p] # NoFile}

\* everything under the RAW directory: its RAW files, the backup logs
\* execute_rename wrote into it, and the rest
RawTree(dir, backups) ==
  {Entry(p[1], p[2], TRUE, 1, RawHash(dir, p)) : p \in Present(dir)}
  \cup {Entry("rename_backup_" \o ToString(stamp), ".json", TRUE, 1, NoHash) :
          stamp \in DOMAIN backups}
  \cup raw_other

\* Path.iterdir: the direct children
Iterdir(tree) == {e \in tree : e.depth = 1}

\* the test of both loops without lower()
ClassifiedNoLower(e, extensions) == e.is_file /\ e.suffix \in extensions

\* the test of both loops: is_file() and suffix.lower() in the extension set
Classified(e, extensions) == e.is_file /\ Lower(e.suffix) \in extensions

\* the RAW loop: the paths it appends, in some order of iterdir
RawCandidates(dir, backups) ==
  {<<e.stem, e.suffix>> : e \in {x \in Iterdir(RawTree(dir, backups)) :
                                   Classified(x, RAW_EXTENSIONS)}}

\* the JPG loop: the entries it appends, in iterdir's order
RECURSIVE JpgLoop(_, _)
JpgLoop(tree, k) ==
  IF k > Len(tree) THEN <<>>
  ELSE (IF tree[k].depth = 1 /\ Classified(tree[k], JPG_EXTENSIONS) THEN <<k>> ELSE <<>>)
       \o JpgLoop(tree, k + 1)

\* the engine's lists at a point of scan_files, the exception raised there and
\* the value returned there
ScanState(raws, jpgs, error, returned) ==
  [raw_files |-> raws, jpg_files |-> jpgs, error |-> error, returned |-> returned]

\* FileRenamerCore.scan_files on an engine whose lists are raws0 and jpgs0: the
\* lists on entry, after lines 48-49, after the RAW loop and at the end
ScanFilesTrace(raws0, jpgs0, order) ==
  LET entry == ScanState(raws0, jpgs0, "", <<>>)
      cleared == ScanState(<<>>, <<>>, "", <<>>)
      jpgs == JpgLoop(jpg_dir, 1)
  IN  IF ~raw_dir_exists \/ ~jpg_dir_exists
      THEN <<entry, cleared, ScanState(<<>>, <<>>, "FileNotFoundError", <<>>)>>
      ELSE IF ~raw_is_dir
      THEN <<entry, cleared, ScanState(<<>>, <<>>, "NotADirectoryError", <<>>)>>
      ELSE IF ~jpg_is_dir
      THEN <<entry, cleared, ScanState(order, <<>>, "", <<>>),
             ScanState(order, <<>>, "NotADirectoryError", <<>>)>>
      ELSE <<entry, cleared, ScanState(order, <<>>, "", <<>>),
             ScanState(order, jpgs, "", <<Len(order), Len(jpgs)>>)>>

\* --------------------------------------------------------------- find_pairs
\* the inner loop taking the first JPG within the threshold
RECURSIVE BestMatchFirstAcceptable(_, _, _, _, _)
BestMatchFirstAcceptable(raw_hash, jpg_hashes, k, best, threshold) ==
  IF k > Len(jpg_hashes) THEN best
  ELSE LET similarity == Distance(raw_hash, JpgHash(jpg_hashes[k]))
       IN  IF best[1] = 0 /\ similarity <= threshold
           THEN BestMatchFirstAcceptable(raw_hash, jpg_hashes, k + 1,
                                         <<jpg_hashes[k], similarity>>, threshold)
           ELSE BestMatchFirstAcceptable(raw_hash, jpg_hashes, k + 1, best, threshold)

\* the inner loop without the test against the threshold
RECURSIVE BestMatchNoThreshold(_, _, _, _, _)
BestMatchNoThreshold(raw_hash, jpg_hashes, k, best, threshold) ==
  IF k > Len(jpg_hashes) THEN best
  ELSE LET similarity == Distance(raw_hash, JpgHash(jpg_hashes[k]))
       IN  IF similarity < best[2]
           THEN BestMatchNoThreshold(raw_hash, jpg_hashes, k + 1,
                                     <<jpg_hashes[k], similarity>>, threshold)
           ELSE BestMatchNoThreshold(raw_hash, jpg_hashes, k + 1, best, threshold)

\* the inner loop with <= for <: the last of the nearest JPGs wins
RECURSIVE BestMatchLastWins(_, _, _, _, _)
BestMatchLastWins(raw_hash, jpg_hashes, k, best, threshold) ==
  IF k > Len(jpg_hashes) THEN best
  ELSE LET similarity == Distance(raw_hash, JpgHash(jpg_hashes[k]))
       IN  IF similarity <= best[2] /\ similarity <= threshold
           THEN BestMatchLastWins(raw_hash, jpg_hashes, k + 1,
                                  <<jpg_hashes[k], similarity>>, threshold)
           ELSE BestMatchLastWins(raw_hash, jpg_hashes, k + 1, best, threshold)

\* the inner loop over jpg_hashes.items(): <<best_match, best_similarity>>
RECURSIVE BestMatch(_, _, _, _, _)
BestMatch(raw_hash, jpg_hashes, k, best, threshold) ==
  IF k > Len(jpg_hashes) THEN best
  ELSE LET similarity == Distance(raw_hash, JpgHash(jpg_hashes[k]))
       IN  IF similarity < best[2] /\ similarity <= threshold
           THEN BestMatch(raw_hash, jpg_hashes, k + 1,
                          <<jpg_hashes[k], similarity>>, threshold)
           ELSE BestMatch(raw_hash, jpg_hashes, k + 1, best, threshold)

\* the first loop without its test for None
JpgHashesKeepsNone(jpgs, k) == SubSeq(jpgs, k, Len(jpgs))

\* the first loop: jpg_hashes, a dict in insertion order, as the list of its keys
RECURSIVE JpgHashes(_, _)
JpgHashes(jpgs, k) ==
  IF k > Len(jpgs) THEN <<>>
  ELSE (IF JpgHash(jpgs[k]) # NoHash THEN <<jpgs[k]>> ELSE <<>>)
       \o JpgHashes(jpgs, k + 1)

\* the loop over raw_files appending every JPG within the threshold
RECURSIVE PairLoopAllMatches(_, _, _, _, _)
PairLoopAllMatches(raws, k, jpg_hashes, dir, threshold) ==
  IF k > Len(raws) THEN <<>>
  ELSE LET raw_hash == RawHash(dir, raws[k])
           near == SelectSeq(jpg_hashes,
                             LAMBDA j : /\ raw_hash # NoHash
                                        /\ Distance(raw_hash, JpgHash(j)) <= threshold)
       IN  [i \in 1..Len(near) |->
              [raw |-> raws[k], jpg |-> near[i],
               similarity |-> Distance(raw_hash, JpgHash(near[i]))]]
           \o PairLoopAllMatches(raws, k + 1, jpg_hashes, dir, threshold)

\* the loop over raw_files: the pair list
RECURSIVE PairLoop(_, _, _, _, _)
PairLoop(raws, k, jpg_hashes, dir, threshold) ==
  IF k > Len(raws) THEN <<>>
  ELSE LET raw_hash == RawHash(dir, raws[k])
           best == IF raw_hash = NoHash THEN <<0, Infinity>>
                   ELSE BestMatch(raw_hash, jpg_hashes, 1, <<0, Infinity>>, threshold)
           rest == PairLoop(raws, k + 1, jpg_hashes, dir, threshold)
       IN  IF raw_hash # NoHash /\ best[1] # 0
           THEN <<[raw |-> raws[k], jpg |-> best[1], similarity |-> best[2]]>> \o rest
           ELSE rest

FindPairsOf(raws, jpgs, dir, threshold) ==
  PairLoop(raws, 1, JpgHashes(jpgs, 1), dir, threshold)

\* a call of progress_callback: processed, total_files and the label's pass
\* and file name
Notify(processed, total, pass, name) ==
  [processed |-> processed, total |-> total, pass |-> pass, name |-> name]

\* the JPG loop calling back before it counts the file
RECURSIVE JpgProgressBeforeIncrement(_, _, _, _)
JpgProgressBeforeIncrement(jpgs, k, processed, total) ==
  IF k > Len(jpgs) THEN <<>>
  ELSE <<Notify(processed, total, "JPG", jpg_dir[jpgs[k]].stem)>>
       \o JpgProgressBeforeIncrement(jpgs, k + 1, processed + 1, total)

\* the calls of progress_callback in the JPG loop, processed files so far given
RECURSIVE JpgProgress(_, _, _, _)
JpgProgress(jpgs, k, processed, total) ==
  IF k > Len(jpgs) THEN <<>>
  ELSE <<Notify(processed + 1, total, "JPG", jpg_dir[jpgs[k]].stem)>>
       \o JpgProgress(jpgs, k + 1, processed + 1, total)

\* the calls of progress_callback in the RAW loop, made before the test for None
RECURSIVE RawProgress(_, _, _, _)
RawProgress(raws, k, processed, total) ==
  IF k > Len(raws) THEN <<>>
  ELSE <<Notify(processed + 1, total, "RAW", raws[k][1])>>
       \o RawProgress(raws, k + 1, processed + 1, total)

\* every call of progress_callback that find_pairs makes, in order
ProgressOf(raws, jpgs) ==
  LET total_files == Len(jpgs) + Len(raws)
  IN  JpgProgress(jpgs, 1, 0, total_files)
      \o RawProgress(raws, 1, Len(jpgs), total_files)

\* ----------------------------------------------------- generate_rename_plan
\* the target with the suffix in lower case
TargetOfLowerSuffix(pair) == <<jpg_dir[pair.jpg].stem, Lower(pair.raw[2])>>

\* jpg_file.stem + raw_file.suffix inside raw_file.parent
TargetOf(pair) == <<jpg_dir[pair.jpg].stem, pair.raw[2]>>

\* the planner without its check that the target is free
PlanEntryNoExistsCheck(pair, dir) ==
  IF pair.raw # TargetOf(pair) THEN << <<pair.raw, TargetOf(pair)>> >> ELSE <<>>

\* the planner without its check that the source is not the target
PlanEntryKeepsNoOp(pair, dir) ==
  IF dir[TargetOf(pair)] # NoFile /\ TargetOf(pair) # pair.raw THEN <<>>
  ELSE << <<pair.raw, TargetOf(pair)>> >>

PlanEntry(pair, dir) ==
  LET new_raw_path == TargetOf(pair)
  IN  IF dir[new_raw_path] # NoFile /\ new_raw_path # pair.raw THEN <<>>
      ELSE IF pair.raw # new_raw_path
           THEN << <<pair.raw, new_raw_path>> >>
           ELSE <<>>

\* the loop planning only the first pair of each JPG
RECURSIVE PlanLoopOnePerJpg(_, _, _)
PlanLoopOnePerJpg(ps, k, dir) ==
  IF k > Len(ps) THEN <<>>
  ELSE (IF \E i \in 1..(k - 1) : ps[i].jpg = ps[k].jpg THEN <<>>
        ELSE PlanEntry(ps[k], dir))
       \o PlanLoopOnePerJpg(ps, k + 1, dir)

\* the loop over self.pairs
RECURSIVE PlanLoop(_, _, _)
PlanLoop(ps, k, dir) ==
  IF k > Len(ps) THEN <<>>
  ELSE PlanEntry(ps[k], dir) \o PlanLoop(ps, k + 1, dir)

GenerateRenamePlan(ps, dir) == PlanLoop(ps, 1, dir)

\* ------------------------------------------------------------ Path.rename
\* os.rename(src, dst) on the RAW directory; denied: the operating system
\* refuses this rename (permissions, a lock, another device)
OsRename(dir, src, dst, denied) ==
  IF dir[src] = NoFile
  THEN [ok |-> FALSE, dir |-> dir, error |-> "FileNotFoundError"]
  ELSE IF denied
  THEN [ok |-> FALSE, dir |-> dir, error |-> "PermissionError"]
  ELSE IF src = dst
  THEN [ok |-> TRUE, dir |-> dir, error |-> ""]
  ELSE IF dir[dst] # NoFile /\ platform = "windows"
  THEN [ok |-> FALSE, dir |-> dir, error |-> "FileExistsError"]
  ELSE [ok |-> TRUE,
        dir |-> [dir EXCEPT ![dst] = dir[src], ![src] = NoFile],
        error |-> ""]

\* ----------------------------------------------------------- execute_rename
\* one entry of backup_data['operations'] (old_name and new_name are the last
\* components of the two paths, which the paths here are)
Record(old_path, new_path, status, error) ==
  [old_path |-> old_path, new_path |-> new_path, status |-> status, error |-> error]

\* the loop leaving at the first failure: nothing is done after an 'error' record
ExecStepStopsAfterError(st, op, denied) ==
  IF \E k \in 1..Len(st.operations) : st.operations[k].status = "error" THEN st
  ELSE LET r == OsRename(st.fs, op[1], op[2], denied)
       IN  [fs |-> r.dir,
            operations |-> Append(st.operations,
                                  Record(op[1], op[2],
                                         IF r.ok THEN "success" ELSE "error", r.error)),
            successful_renames |-> st.successful_renames + (IF r.ok THEN 1 ELSE 0)]

\* the counter incremented for every attempt, failed ones too
ExecStepCountsAttempts(st, op, denied) ==
  LET r == OsRename(st.fs, op[1], op[2], denied)
  IN  [fs |-> r.dir,
       operations |-> Append(st.operations,
                             Record(op[1], op[2],
                                    IF r.ok THEN "success" ELSE "error", r.error)),
       successful_renames |-> st.successful_renames + 1]

\* one iteration of the loop over rename_plan
ExecStep(st, op, denied) ==
  LET r == OsRename(st.fs, op[1], op[2], denied)
  IN  IF r.ok
      THEN [fs |-> r.dir,
            operations |-> Append(st.operations, Record(op[1], op[2], "success", "")),
            successful_renames |-> st.successful_renames + 1]
      ELSE [fs |-> st.fs,
            operations |-> Append(st.operations, Record(op[1], op[2], "error", r.error)),
            successful_renames |-> st.successful_renames]

\* the loop: its state before each iteration and after the last
RECURSIVE ExecTrace(_, _, _, _)
ExecTrace(plan, fail, k, acc) ==
  IF k > Len(plan) THEN acc
  ELSE ExecTrace(plan, fail, k + 1,
                 Append(acc, ExecStep(acc[Len(acc)], plan[k], k \in fail)))

ExecuteRenameTrace(plan, dir, fail) ==
  ExecTrace(plan, fail, 1,
            <<[fs |-> dir, operations |-> <<>>, successful_renames |-> 0]>>)

\* ----------------------------------------------------------- restore_backup
\* restore without the check of the record's status
RestoreStepAnyStatus(st, operation, denied) ==
  IF st.fs[operation.new_path] # NoFile
  THEN LET r == OsRename(st.fs, operation.new_path, operation.old_path, denied)
       IN  IF r.ok
           THEN [fs |-> r.dir, restored |-> st.restored + 1, errors |-> st.errors]
           ELSE [fs |-> st.fs, restored |-> st.restored,
                 errors |-> Append(st.errors, <<operation.new_path, r.error>>)]
  ELSE st

\* restore without the check that new_path exists
RestoreStepNoExistsCheck(st, operation, denied) ==
  IF operation.status = "success"
  THEN LET r == OsRename(st.fs, operation.new_path, operation.old_path, denied)
       IN  IF r.ok
           THEN [fs |-> r.dir, restored |-> st.restored + 1, errors |-> st.errors]
           ELSE [fs |-> st.fs, restored |-> st.restored,
                 errors |-> Append(st.errors, <<operation.new_path, r.error>>)]
  ELSE st

\* restore swallowing a failed rename-back without a message
RestoreStepDropsError(st, operation, denied) ==
  IF operation.status = "success" /\ st.fs[operation.new_path] # NoFile
  THEN LET r == OsRename(st.fs, operation.new_path, operation.old_path, denied)
       IN  IF r.ok
           THEN [fs |-> r.dir, restored |-> st.restored + 1, errors |-> st.errors]
           ELSE st
  ELSE st

\* one iteration of the loop over backup_data['operations']
RestoreStep(st, operation, denied) ==
  IF operation.status = "success"
  THEN IF st.fs[operation.new_path] # NoFile
       THEN LET r == OsRename(st.fs, operation.new_path, operation.old_path, denied)
            IN  IF r.ok
                THEN [fs |-> r.dir, restored |-> st.restored + 1, errors |-> st.errors]
                ELSE [fs |-> st.fs, restored |-> st.restored,
                      errors |-> Append(st.errors, <<operation.new_path, r.error>>)]
       ELSE st
  ELSE st

RECURSIVE RestoreTrace(_, _, _, _)
RestoreTrace(operations, fail, k, acc) ==
  IF k > Len(operations) THEN acc
  ELSE RestoreTrace(operations, fail, k + 1,
                    Append(acc, RestoreStep(acc[Len(acc)], operations[k], k \in fail)))

RestoreBackupTrace(operations, dir, fail) ==
  RestoreTrace(operations, fail, 1, <<[fs |-> dir, restored |-> 0, errors |-> <<>>]>>)

\* ------------------------------------------------------------------- state
Thresholds == 1..MaxThreshold
\* the clock readings a batch can get: datetime.now() is local time at a
\* resolution of one second, so a batch can get the reading of an earlier batch
\* (the same second, or the repeated hour at the end of daylight saving time).
\* Readings are numbered in the order of their first use.
StampsNow == {s \in Stamps : s <= batches + 1}
Denials(n) == {d \in SUBSET (1..n) : Cardinality(d) <= MaxDenied}

\* neither the pair list nor the plan is older than the most recent scan
Fresh == [pairs |-> FALSE, plan |-> FALSE]

\* a FileRenamerCore object: the fields find_pairs reads and writes
Engine(raws, jpgs, ps, threshold) ==
  [raw_files |-> raws, jpg_files |-> jpgs, pairs |-> ps,
   similarity_threshold |-> threshold]
\* a worker that is inside find_pairs on the object renamer_core refers to
\* (obj = 0; obj = n > 0 is the object heap[n])
OnCurrent(w) == w.pc = "find_pairs" /\ w.obj = 0
\* renamer_core is assigned a new object or None: the object it referred to
\* lives on for the workers that are inside find_pairs on it
HeapAfterRelease ==
  IF \E i \in 1..Len(threads) : OnCurrent(threads[i])
  THEN Append(heap, Engine(raw_files, jpg_files, pairs, similarity_threshold))
  ELSE heap
ThreadsAfterRelease ==
  [i \in 1..Len(threads) |->
     IF OnCurrent(threads[i]) THEN [threads[i] EXCEPT !.obj = Len(heap) + 1]
     ELSE threads[i]]

Init ==
  /\ rawfp \in [FileIds -> Fingerprints \cup {NoHash}]
  /\ platform \in {"posix", "windows"}
  /\ raw_dir_exists \in BOOLEAN
  /\ jpg_dir_exists \in BOOLEAN
  /\ raw_is_dir \in {b \in BOOLEAN : b => raw_dir_exists}
  /\ jpg_is_dir \in {b \in BOOLEAN : b => jpg_dir_exists}
  /\ raw_other = RawOtherPool
  /\ jpg_dir = JpgDir
  /\ fs = [p \in RawPaths |->
             IF raw_is_dir /\ \E i \in FileIds : InitPath(i) = p
             THEN CHOOSE i \in FileIds : InitPath(i) = p
             ELSE NoFile]
  /\ logs = <<>>
  /\ renamer_core = "None"
  /\ similarity_threshold = 0
  /\ raw_files = <<>>
  /\ jpg_files = <<>>
  /\ pairs = <<>>
  /\ log_file = 0
  /\ rename_plan = <<>>
  /\ find_pairs_button = FALSE
  /\ rename_button = FALSE
  /\ batches = 0
  /\ restores = 0
  /\ last = NoCall
  /\ stale = Fresh
  /\ threads = <<>>
  /\ heap = <<>>
  /\ after_queue = <<>>
  /\ progress = [value |-> 0, by |-> "main"]

\* FileRenamerGUI.scan_files: a new FileRenamerCore and its scan_files, whose
\* exception the handler catches and shows;
\* order: the order iterdir lists the RAW directory in
ScanFiles ==
  /\ renamer_core' = "core"
  /\ \E threshold \in Thresholds : similarity_threshold' = threshold
  /\ pairs' = <<>>
  /\ log_file' = 0
  /\ \E order \in Perms(RawCandidates(fs, logs)) :
       LET trace == ScanFilesTrace(<<>>, <<>>, order)
           done == trace[Len(trace)]
       IN  /\ raw_files' = done.raw_files
           /\ jpg_files' = done.jpg_files
           /\ find_pairs_button' =
                IF done.error = "" /\ Len(done.raw_files) > 0 /\ Len(done.jpg_files) > 0
                THEN TRUE
                ELSE find_pairs_button
           /\ last' = Call("scan_files", 0, <<>>, trace, done.error # "", last.op,
                           NoPrior)
  /\ stale' = [pairs |-> FALSE, plan |-> rename_plan # <<>>]
  /\ heap' = HeapAfterRelease
  /\ threads' = ThreadsAfterRelease
  /\ UNCHANGED <<fs, logs, world, rename_plan, rename_button, batches, restores,
                 after_queue, progress>>

\* FileRenamerGUI.find_pairs and its worker: FileRenamerCore.find_pairs,
\* generate_rename_plan, then update_pairs_display
FindPairs ==
  /\ find_pairs_button
  /\ renamer_core # "None"
  /\ pairs' = FindPairsOf(raw_files, jpg_files, fs, similarity_threshold)
  /\ rename_plan' = GenerateRenamePlan(pairs', fs)
  /\ rename_button' = IF Len(rename_plan') > 0 THEN TRUE ELSE rename_button
  /\ last' = Call("find_pairs", 0, pairs', ProgressOf(raw_files, jpg_files), FALSE,
                  last.op, NoPrior)
  /\ stale' = Fresh
  /\ UNCHANGED <<fs, logs, world, renamer_core, similarity_threshold, raw_files,
                 jpg_files, log_file, find_pairs_button, batches, restores, gui>>

\* reset_gui
ResetGui ==
  /\ find_pairs_button' = FALSE
  /\ rename_button' = FALSE
  /\ renamer_core' = "None"
  /\ similarity_threshold' = 0
  /\ raw_files' = <<>>
  /\ jpg_files' = <<>>
  /\ pairs' = <<>>
  /\ log_file' = 0
  /\ rename_plan' = <<>>
  /\ progress' = [value |-> 0, by |-> "main"]
  /\ stale' = Fresh
  /\ heap' = HeapAfterRelease
  /\ threads' = ThreadsAfterRelease
  /\ UNCHANGED after_queue

\* FileRenamerGUI.rename_files, confirmed: FileRenamerCore.execute_rename on
\* rename_plan, then reset_gui. stamp: what the clock gives for
\* strftime("%Y%m%d_%H%M%S"); fail: the renames the operating system refuses;
\* write_fails: open(self.log_file, 'w') or json.dump raises
ExecuteRename ==
  /\ rename_button
  /\ Len(rename_plan) > 0
  /\ renamer_core # "None"
  /\ batches < MaxBatches
  /\ \E stamp \in StampsNow, fail \in Denials(Len(rename_plan)), write_fails \in BOOLEAN :
       LET trace == ExecuteRenameTrace(rename_plan, fs, fail)
           done == trace[Len(trace)]
           backup_data == [timestamp |-> stamp, operations |-> done.operations]
           raised == write_fails \/ ~raw_dir_exists
       IN  /\ fs' = done.fs
           /\ last' = Call("execute_rename", stamp, rename_plan, trace, raised,
                           last.op, NoPrior)
           /\ IF raised
              THEN /\ logs' = logs
                   /\ log_file' = stamp
                   /\ UNCHANGED <<renamer_core, similarity_threshold, raw_files,
                                  jpg_files, pairs, rename_plan, find_pairs_button,
                                  rename_button, stale, gui>>
              ELSE /\ logs' = [s \in DOMAIN logs \cup {stamp} |->
                                 IF s = stamp THEN backup_data ELSE logs[s]]
                   /\ ResetGui
  /\ batches' = batches + 1
  /\ UNCHANGED <<world, restores>>

\* FileRenamerGUI.restore_backup with the backup file the user picked
RestoreBackup ==
  /\ restores < MaxRestores
  /\ \E stamp \in DOMAIN logs :
       \E fail \in Denials(Len(logs[stamp].operations)) :
         LET trace == RestoreBackupTrace(logs[stamp].operations, fs, fail)
         IN  /\ fs' = trace[Len(trace)].fs
             /\ last' = Call("restore_backup", stamp, logs[stamp].operations, trace,
                             FALSE, last.op, Prior(last))
  /\ restores' = restores + 1
  /\ UNCHANGED <<logs, world, core, rename_plan, find_pairs_button, rename_button,
                 batches, stale, gui>>

Next ==
  \/ ScanFiles
  \/ FindPairs
  \/ ExecuteRename
  \/ RestoreBackup

Spec == Init /\ [][Next]_vars

\* ------------------------------------------------- restore of an older log
\* restore_backup is given any backup log of the RAW directory, written by some
\* earlier batch, at any later time: the directory at that batch and the
\* directory now are any two, and the plan of that batch is any list of
\* operations that generate_rename_plan can give: one operation per RAW file,
\* onto a JPG's stem with the suffix kept, none onto its own source.
InitRawPaths == (RawStems \cup JpgStems) \X InitExts
Dirs ==
  {[p \in RawPaths |-> IF p \in InitRawPaths THEN d[p] ELSE NoFile] :
     d \in {e \in [InitRawPaths -> FileIds \cup {NoFile}] :
              \A p, q \in InitRawPaths : (p # q /\ e[p] # NoFile) => e[p] # e[q]}}
Operations ==
  {op \in InitRawPaths \X InitRawPaths :
     op[1] # op[2] /\ op[2][1] \in JpgStems /\ op[2][2] = op[1][2]}
Plans ==
  {<<>>} \cup
  UNION {{plan \in [1..n -> Operations] :
            \A i, j \in 1..n : i # j => plan[i][1] # plan[j][1]} : n \in 1..MaxRaw}

InitRestore ==
  /\ rawfp = [i \in FileIds |-> NoHash]
  /\ platform \in {"posix", "windows"}
  /\ raw_dir_exists = TRUE
  /\ jpg_dir_exists = TRUE
  /\ raw_is_dir = TRUE
  /\ jpg_is_dir = TRUE
  /\ raw_other = RawOtherPool
  /\ jpg_dir = JpgDir
  /\ fs \in Dirs
  /\ \E plan \in Plans, dir0 \in Dirs :
       \E fail \in Denials(Len(plan)) :
         LET trace == ExecuteRenameTrace(plan, dir0, fail)
         IN  logs = <<[timestamp |-> 1, operations |-> trace[Len(trace)].operations]>>
  /\ renamer_core = "None"
  /\ similarity_threshold = 0
  /\ raw_files = <<>>
  /\ jpg_files = <<>>
  /\ pairs = <<>>
  /\ log_file = 0
  /\ rename_plan = <<>>
  /\ find_pairs_button = FALSE
  /\ rename_button = FALSE
  /\ batches = 0
  /\ restores = 0
  /\ last = NoCall
  /\ stale = Fresh
  /\ threads = <<>>
  /\ heap = <<>>
  /\ after_queue = <<>>
  /\ progress = [value |-> 0, by |-> "main"]

NextRestore == RestoreBackup

SpecRestore == InitRestore /\ [][NextRestore]_vars

\* ------------------------------------------------- the engine on its own
\* FileRenamerCore.scan_files on an engine that exists
CoreScanFiles ==
  /\ renamer_core = "core"
  /\ \E order \in Perms(RawCandidates(fs, logs)) :
       LET trace == ScanFilesTrace(raw_files, jpg_files, order)
           done == trace[Len(trace)]
       IN  /\ raw_files' = done.raw_files
           /\ jpg_files' = done.jpg_files
           /\ last' = Call("scan_files", 0, <<>>, trace, done.error # "", last.op,
                           NoPrior)
  /\ stale' = [pairs |-> pairs # <<>>, plan |-> rename_plan # <<>>]
  /\ UNCHANGED <<fs, logs, world, renamer_core, similarity_threshold, pairs, log_file,
                 rename_plan, find_pairs_button, rename_button, batches, restores, gui>>

\* FileRenamerCore.find_pairs
CoreFindPairs ==
  /\ renamer_core = "core"
  /\ pairs' = FindPairsOf(raw_files, jpg_files, fs, similarity_threshold)
  /\ last' = Call("find_pairs", 0, pairs', ProgressOf(raw_files, jpg_files), FALSE,
                  last.op, NoPrior)
  /\ stale' = [stale EXCEPT !.pairs = FALSE]
  /\ UNCHANGED <<fs, logs, world, renamer_core, similarity_threshold, raw_files,
                 jpg_files, log_file, rename_plan, find_pairs_button, rename_button,
                 batches, restores, gui>>

\* FileRenamerCore.generate_rename_plan; rename_plan is the list it returns
CoreGenerateRenamePlan ==
  /\ renamer_core = "core"
  /\ rename_plan' = GenerateRenamePlan(pairs, fs)
  /\ last' = Call("generate_rename_plan", 0, pairs, <<>>, FALSE, last.op, NoPrior)
  /\ stale' = [stale EXCEPT !.plan = stale.pairs /\ rename_plan' # <<>>]
  /\ UNCHANGED <<fs, logs, world, core, find_pairs_button, rename_button, batches,
                 restores, gui>>

\* ----------------------------------------------- pairing of any two folders
\* the engine is given any similarity threshold from 0 up, a JPG directory
\* whose files hash to anything or fail to, and a RAW directory whose files
\* have any of the names and suffixes and hash to anything or fail to
CoreThresholds == 0..MaxThreshold
PairExts == {RawExtPool[i] : i \in 1..Len(RawExtPool)}
PairDirs ==
  {[p \in RawPaths |-> IF \E i \in FileIds : at[i] = p
                       THEN CHOOSE i \in FileIds : at[i] = p
                       ELSE NoFile] :
     at \in {f \in [FileIds -> RawPaths] :
               /\ \A i, j \in FileIds : i # j => f[i] # f[j]
               /\ \A i \in FileIds : /\ f[i][1] \in {RawStemPool[i], JpgDir[1].stem}
                                     /\ f[i][2] \in PairExts}}

InitPairs ==
  /\ rawfp \in [FileIds -> Fingerprints \cup {NoHash}]
  /\ platform = "posix"
  /\ raw_dir_exists = TRUE
  /\ jpg_dir_exists = TRUE
  /\ raw_is_dir = TRUE
  /\ jpg_is_dir = TRUE
  /\ raw_other = {}
  /\ \E fp \in [1..Len(JpgDir) -> Fingerprints \cup {NoHash}] :
       jpg_dir = [j \in 1..Len(JpgDir) |-> [JpgDir[j] EXCEPT !.fp = fp[j]]]
  /\ fs \in PairDirs
  /\ logs = <<>>
  /\ renamer_core = "core"
  /\ similarity_threshold \in CoreThresholds
  /\ raw_files = <<>>
  /\ jpg_files = <<>>
  /\ pairs = <<>>
  /\ log_file = 0
  /\ rename_plan = <<>>
  /\ find_pairs_button = FALSE
  /\ rename_button = FALSE
  /\ batches = 0
  /\ restores = 0
  /\ last = NoCall
  /\ stale = Fresh
  /\ threads = <<>>
  /\ heap = <<>>
  /\ after_queue = <<>>
  /\ progress = [value |-> 0, by |-> "main"]

NextPairs ==
  \/ CoreScanFiles
  \/ CoreFindPairs
  \/ CoreGenerateRenamePlan

SpecPairs == InitPairs /\ [][NextPairs]_vars

\* ------------------------------------------------ scanning of any two folders
\* the engine is given two paths that are each a directory, something else or
\* missing, and that change between its calls; under the JPG path there is any
\* selection of JpgPool, under the RAW path the RAW files and any selection of
\* RawOtherPool
JpgPool ==
  JpgDir \o << Entry("Wedding_044", ".jpeg", TRUE, 1, [ok |-> TRUE, bits |-> {}]),
               Entry("export", ".jpg", FALSE, 1, [ok |-> FALSE, bits |-> {}]),
               Entry("IMG_1", ".CR2", TRUE, 1, [ok |-> TRUE, bits |-> {}]) >>
\* the entries of a listing at the places chosen, in the listing's order
Pick(tree, places) ==
  LET at == SelectSeq([k \in 1..Len(tree) |-> k], LAMBDA k : k \in places)
  IN  [k \in 1..Len(at) |-> tree[at[k]]]
\* what a path can be: <<exists(), is a directory>>
PathKinds == {<<FALSE, FALSE>>, <<TRUE, FALSE>>, <<TRUE, TRUE>>}

InitScan ==
  /\ rawfp = [i \in FileIds |-> NoHash]
  /\ platform = "posix"
  /\ \E kind \in PathKinds : raw_dir_exists = kind[1] /\ raw_is_dir = kind[2]
  /\ \E kind \in PathKinds : jpg_dir_exists = kind[1] /\ jpg_is_dir = kind[2]
  /\ raw_other \in SUBSET RawOtherPool
  /\ \E places \in SUBSET (1..Len(JpgPool)) : jpg_dir = Pick(JpgPool, places)
  /\ fs = [p \in RawPaths |->
             IF \E i \in FileIds : InitPath(i) = p
             THEN CHOOSE i \in FileIds : InitPath(i) = p
             ELSE NoFile]
  /\ logs = <<>>
  /\ renamer_core = "core"
  /\ similarity_threshold = MaxThreshold
  /\ raw_files = <<>>
  /\ jpg_files = <<>>
  /\ pairs = <<>>
  /\ log_file = 0
  /\ rename_plan = <<>>
  /\ find_pairs_button = FALSE
  /\ rename_button = FALSE
  /\ batches = 0
  /\ restores = 0
  /\ last = NoCall
  /\ stale = Fresh
  /\ threads = <<>>
  /\ heap = <<>>
  /\ after_queue = <<>>
  /\ progress = [value |-> 0, by |-> "main"]

\* between two calls a path becomes a directory, something else or missing
FoldersChange ==
  /\ \E kind \in PathKinds : raw_dir_exists' = kind[1] /\ raw_is_dir' = kind[2]
  /\ \E kind \in PathKinds : jpg_dir_exists' = kind[1] /\ jpg_is_dir' = kind[2]
  /\ <<raw_dir_exists', raw_is_dir', jpg_dir_exists', jpg_is_dir'>>
       # <<raw_dir_exists, raw_is_dir, jpg_dir_exists, jpg_is_dir>>
  /\ last' = Call("none", 0, <<>>, <<>>, FALSE, last.op, NoPrior)
  /\ UNCHANGED <<fs, logs, rawfp, platform, raw_other, jpg_dir, core, rename_plan,
                 find_pairs_button, rename_button, batches, restores, stale, gui>>

NextScan ==
  \/ CoreScanFiles
  \/ FoldersChange

SpecScan == InitScan /\ [][NextScan]_vars

\* ------------------------------------------- the pairing worker as a thread
\* FileRenamerGUI.find_pairs starts find_pairs_thread and returns; the thread
\* runs beside the main loop, which runs the other handlers and the callbacks
\* given to root.after.
\* A worker: where it is, the object its find_pairs call is bound to (-1 before
\* the call, 0 for the object renamer_core refers to, n for heap[n]),
\* total_files and processed of that call, the callbacks it gave to root.after,
\* those of them the main loop has run, and whether generate_rename_plan was
\* called on the object find_pairs was called on
Worker(pc, obj, total, processed, handed, run, same_core) ==
  [pc |-> pc, obj |-> obj, total |-> total, processed |-> processed,
   handed |-> handed, run |-> run, same_core |-> same_core]

\* the object a worker's find_pairs call is bound to
EngineOf(w) ==
  IF w.obj = 0 THEN Engine(raw_files, jpg_files, pairs, similarity_threshold)
  ELSE heap[w.obj]

\* self.progress['value'] = (current / total) * 100, in whole percent
Percent(current, total) == (current * 100) \div total

\* FileRenamerGUI.find_pairs: the handler of the button
StartPairing ==
  /\ find_pairs_button
  /\ renamer_core # "None"
  /\ Len(threads) < MaxWorkers
  /\ threads' = Append(threads, Worker("start", -1, 0, 0, <<>>, <<>>, FALSE))
  /\ UNCHANGED <<fs, logs, world, core, rename_plan, find_pairs_button, rename_button,
                 batches, restores, last, stale, heap, after_queue, progress>>

\* root.after(0, fn) called by worker i
Handed(i, fn) == Append(after_queue, [fn |-> fn, by |-> i])

\* find_pairs_thread evaluates self.renamer_core.find_pairs(progress_callback):
\* AttributeError when renamer_core is None, else self.pairs = [] and
\* total_files of that object
WorkerBegin(i) ==
  /\ threads[i].pc = "start"
  /\ IF renamer_core = "None"
     THEN /\ threads' = [threads EXCEPT ![i].pc = "finally",
                                        ![i].handed = Append(@, "showerror")]
          /\ after_queue' = Handed(i, "showerror")
          /\ UNCHANGED <<pairs, stale>>
     ELSE /\ threads' = [threads EXCEPT ![i].pc = "find_pairs",
                                        ![i].obj = 0,
                                        ![i].total = Len(jpg_files) + Len(raw_files)]
          /\ pairs' = <<>>
          /\ stale' = [stale EXCEPT !.pairs = FALSE]
          /\ UNCHANGED after_queue
  /\ UNCHANGED <<fs, logs, world, renamer_core, similarity_threshold, raw_files,
                 jpg_files, log_file, rename_plan, find_pairs_button, rename_button,
                 batches, restores, last, heap, progress>>

\* one iteration of the JPG loop or of the RAW loop of find_pairs: the file is
\* hashed, progress_callback sets the progress bar from the worker thread, and
\* a RAW file's pair is appended to the object's pair list
WorkerFile(i) ==
  /\ threads[i].pc = "find_pairs"
  /\ threads[i].processed < threads[i].total
  /\ LET w == threads[i]
         e == EngineOf(w)
         processed == w.processed + 1
         found == IF processed <= Len(e.jpg_files) THEN <<>>
                  ELSE PairLoop(<<e.raw_files[processed - Len(e.jpg_files)]>>, 1,
                                JpgHashes(e.jpg_files, 1), fs, e.similarity_threshold)
     IN  /\ threads' = [threads EXCEPT ![i].processed = processed]
         /\ progress' = [value |-> Percent(processed, w.total), by |-> "worker"]
         /\ IF w.obj = 0
            THEN pairs' = pairs \o found /\ UNCHANGED heap
            ELSE heap' = [heap EXCEPT ![w.obj].pairs = @ \o found] /\ UNCHANGED pairs
  /\ UNCHANGED <<fs, logs, world, renamer_core, similarity_threshold, raw_files,
                 jpg_files, log_file, rename_plan, find_pairs_button, rename_button,
                 batches, restores, last, stale, after_queue>>

\* find_pairs has returned: self.rename_plan =
\* self.renamer_core.generate_rename_plan(), on the object renamer_core refers
\* to now, and root.after(0, self.update_pairs_display); AttributeError and
\* root.after(0, showerror) when renamer_core is None
WorkerPlan(i) ==
  /\ threads[i].pc = "find_pairs"
  /\ threads[i].processed = threads[i].total
  /\ IF renamer_core = "None"
     THEN /\ threads' = [threads EXCEPT ![i].pc = "finally",
                                        ![i].handed = Append(@, "showerror")]
          /\ after_queue' = Handed(i, "showerror")
          /\ UNCHANGED <<rename_plan, stale>>
     ELSE /\ threads' = [threads EXCEPT ![i].pc = "finally",
                                        ![i].same_core = (threads[i].obj = 0),
                                        ![i].handed = Append(@, "update_pairs_display")]
          /\ rename_plan' = GenerateRenamePlan(pairs, fs)
          /\ stale' = [stale EXCEPT !.plan = FALSE]
          /\ after_queue' = Handed(i, "update_pairs_display")
  /\ UNCHANGED <<fs, logs, world, core, find_pairs_button, rename_button, batches,
                 restores, last, heap, progress>>

\* finally: root.after(0, lambda: self.progress.config(value=0))
WorkerFinally(i) ==
  /\ threads[i].pc = "finally"
  /\ threads' = [threads EXCEPT ![i].pc = "done",
                                ![i].handed = Append(@, "progress_reset")]
  /\ after_queue' = Handed(i, "progress_reset")
  /\ UNCHANGED <<fs, logs, world, core, rename_plan, find_pairs_button, rename_button,
                 batches, restores, last, stale, heap, progress>>

WorkerStep(i) ==
  \/ WorkerBegin(i)
  \/ WorkerFile(i)
  \/ WorkerPlan(i)
  \/ WorkerFinally(i)

\* the main loop runs the oldest callback given to root.after
RunAfter ==
  /\ Len(after_queue) > 0
  /\ LET callback == Head(after_queue)
     IN  /\ threads' = [threads EXCEPT ![callback.by].run = Append(@, callback.fn)]
         /\ rename_button' =
              IF callback.fn = "update_pairs_display" /\ Len(rename_plan) > 0 THEN TRUE
              ELSE rename_button
         /\ progress' =
              IF callback.fn = "progress_reset" THEN [value |-> 0, by |-> "main"]
              ELSE progress
  /\ after_queue' = Tail(after_queue)
  /\ UNCHANGED <<fs, logs, world, core, rename_plan, find_pairs_button, batches,
                 restores, last, stale, heap>>

InitGui ==
  /\ rawfp = [i \in FileIds |-> JpgDir[1].fp]
  /\ platform = "posix"
  /\ raw_dir_exists = TRUE
  /\ jpg_dir_exists = TRUE
  /\ raw_is_dir = TRUE
  /\ jpg_is_dir = TRUE
  /\ raw_other = {}
  /\ jpg_dir = JpgDir
  /\ fs = [p \in RawPaths |->
             IF \E i \in FileIds : InitPath(i) = p
             THEN CHOOSE i \in FileIds : InitPath(i) = p
             ELSE NoFile]
  /\ logs = <<>>
  /\ renamer_core = "None"
  /\ similarity_threshold = 0
  /\ raw_files = <<>>
  /\ jpg_files = <<>>
  /\ pairs = <<>>
  /\ log_file = 0
  /\ rename_plan = <<>>
  /\ find_pairs_button = FALSE
  /\ rename_button = FALSE
  /\ batches = 0
  /\ restores = 0
  /\ last = NoCall
  /\ stale = Fresh
  /\ threads = <<>>
  /\ heap = <<>>
  /\ after_queue = <<>>
  /\ progress = [value |-> 0, by |-> "main"]

\* the rename action beside the workers
RenameFiles == batches < MaxGuiBatches /\ ExecuteRename

\* the steps of the threads started so far
Begin == \E i \in 1..Len(threads) : WorkerBegin(i)
File == \E i \in 1..Len(threads) : WorkerFile(i)
Plan == \E i \in 1..Len(threads) : WorkerPlan(i)
Finally == \E i \in 1..Len(threads) : WorkerFinally(i)

NextGui ==
  \/ ScanFiles
  \/ StartPairing
  \/ Begin
  \/ File
  \/ Plan
  \/ Finally
  \/ RunAfter
  \/ RenameFiles

SpecGui == InitGui /\ [][NextGui]_vars

\* every started thread keeps being scheduled, and the main loop keeps running
\* the callbacks given to root.after
SpecGuiFair ==
  /\ SpecGui
  /\ \A i \in 1..MaxWorkers : WF_vars(i <= Len(threads) /\ WorkerStep(i))
  /\ WF_vars(RunAfter)

\* ------------------------------------------------------------------ claims
Final(c) == c.trace[Len(c.trace)]
Executed == last.op = "execute_rename"
Restored == last.op = "restore_backup"
Planned == last.op = "find_pairs"
\* the pair's target is taken by a file that is not the pair's RAW file
Collides(pair, dir) == dir[TargetOf(pair)] # NoFile /\ TargetOf(pair) # pair.raw
\* restore_backup ran right after the execute_rename that wrote the log it read,
\* and that batch ran right after the plan was made
RoundTrip ==
  /\ Restored
  /\ last.prior.op = "execute_rename"
  /\ last.prior.after = "find_pairs"
  /\ ~last.prior.raised
  /\ last.stamp = last.prior.stamp

\* C1: after execute_rename on a fresh plan and restore_backup on its log, with
\* no rename-back refused, every file with a 'success' record is back at its
\* old_path and nothing is at its new_path.
C1_RoundTrip ==
  (RoundTrip /\ Final(last).errors = <<>>) =>
    \A k \in 1..Len(last.input) :
      last.input[k].status = "success" =>
        /\ fs[last.input[k].old_path] = last.prior.trace[1].fs[last.input[k].old_path]
        /\ fs[last.input[k].new_path] = NoFile

\* the restore_backup before this one read the same log
SecondRestore ==
  /\ Restored
  /\ last.prior.op = "restore_backup"
  /\ last.prior.stamp = last.stamp
\* a 'success' record whose new_path is the old_path of a later 'success' record
Chained(operations) ==
  \E i, j \in 1..Len(operations) :
    /\ i < j
    /\ operations[i].status = "success"
    /\ operations[j].status = "success"
    /\ operations[i].new_path = operations[j].old_path

C3_CollisionSkip ==
  Planned =>
    /\ \A k \in 1..Len(rename_plan) :
         fs[rename_plan[k][2]] = NoFile \/ rename_plan[k][2] = rename_plan[k][1]
    /\ \A k \in 1..Len(pairs) :
         Collides(pairs[k], fs) =>
           <<pairs[k].raw, TargetOf(pairs[k])>> \notin Range(rename_plan)

C3_Witness ==
  /\ Planned
  /\ \E k \in 1..Len(pairs) : Collides(pairs[k], fs)

\* C4: no operation of a plan has its source as target, and a RAW file that
\* already has its JPG's stem is in no operation of the plan.
C4_NoOpExcluded ==
  Planned =>
    /\ \A k \in 1..Len(rename_plan) : rename_plan[k][1] # rename_plan[k][2]
    /\ \A k \in 1..Len(pairs) :
         TargetOf(pairs[k]) = pairs[k].raw =>
           \A n \in 1..Len(rename_plan) : rename_plan[n][1] # pairs[k].raw

C4_Witness ==
  /\ Planned
  /\ \E k \in 1..Len(pairs) : TargetOf(pairs[k]) = pairs[k].raw

\* what one iteration of execute_rename's loop did to the directory
Moved(before, after, old_path, new_path) ==
  /\ before[old_path] # NoFile
  /\ after = [before EXCEPT ![new_path] = before[old_path], ![old_path] = NoFile]

\* C5: execute_rename makes one attempt per operation of the plan, in plan
\* order, also after a failure: the k-th iteration appends the record of the
\* k-th operation, 'success' when it renamed it and 'error' with a message when
\* it did not, and the log written holds these records.
C5_OneRecordPerOperation ==
  Executed =>
    /\ Len(last.trace) = Len(last.input) + 1
    /\ \A k \in 1..Len(last.input) :
         LET before == last.trace[k]
             after == last.trace[k + 1]
         IN  /\ Len(after.operations) = k
             /\ SubSeq(after.operations, 1, k - 1) = before.operations
             /\ after.operations[k].old_path = last.input[k][1]
             /\ after.operations[k].new_path = last.input[k][2]
             /\ \/ /\ after.operations[k].status = "success"
                   /\ Moved(before.fs, after.fs, last.input[k][1], last.input[k][2])
                \/ /\ after.operations[k].status = "error"
                   /\ after.operations[k].error # ""
                   /\ after.fs = before.fs
    /\ ~last.raised => logs[last.stamp].operations = Final(last).operations

C5_Witness ==
  /\ Executed
  /\ ~last.raised
  /\ \E i, j \in 1..Len(last.input) :
       /\ i < j
       /\ logs[last.stamp].operations[i].status = "error"
       /\ logs[last.stamp].operations[j].status = "success"

\* C6: execute_rename never ends with a file renamed and no backup log of the
\* batch on disk.
C6_LogAlwaysWritten ==
  (Executed /\ Final(last).successful_renames > 0) =>
    /\ last.stamp \in DOMAIN logs
    /\ logs[last.stamp].operations = Final(last).operations

\* C7: a backup log on disk is never changed or removed afterwards.
C7_LogsWriteOnce ==
  [][\A s \in DOMAIN logs : s \in DOMAIN logs' /\ logs'[s] = logs[s]]_vars

CountStatus(operations, status) ==
  Cardinality({k \in 1..Len(operations) : operations[k].status = status})

\* C8: the count execute_rename returns is the number of 'success' records of
\* the log it wrote, and with the number of 'error' records it adds up to the
\* length of the plan.
C8_CountMatchesLog ==
  (Executed /\ ~last.raised) =>
    /\ Final(last).successful_renames =
         CountStatus(logs[last.stamp].operations, "success")
    /\ Final(last).successful_renames
         + CountStatus(logs[last.stamp].operations, "error") = Len(last.input)

C8_Witness ==
  /\ Executed
  /\ ~last.raised
  /\ Final(last).successful_renames > 0
  /\ Final(last).successful_renames < Len(last.input)

\* C9: in restore_backup a record with status 'error', or a 'success' record
\* whose new_path is missing when its turn comes, changes neither the
\* filesystem nor the error list nor the restored counter.
C9_RestoreFrame ==
  Restored =>
    \A k \in 1..Len(last.input) :
      (\/ last.input[k].status # "success"
       \/ last.trace[k].fs[last.input[k].new_path] = NoFile)
      => last.trace[k + 1] = last.trace[k]

C9_Witness ==
  /\ Restored
  /\ \E k \in 1..Len(last.input) :
       /\ last.input[k].status = "error"
       /\ last.trace[k].fs[last.input[k].new_path] # NoFile

\* the records restore_backup tried to rename back
Attempted(c) ==
  {k \in 1..Len(c.input) :
     c.input[k].status = "success" /\ c.trace[k].fs[c.input[k].new_path] # NoFile}

\* C10: restore_backup never raises; a failed rename-back adds one message and
\* the loop goes on; restored plus the number of messages is the number of
\* 'success' records whose new_path existed at their turn.
C10_RestoreErrorsCollected ==
  Restored =>
    /\ ~last.raised
    /\ Len(last.trace) = Len(last.input) + 1
    /\ \A k \in 1..Len(last.input) :
         \/ /\ last.trace[k + 1].restored = last.trace[k].restored + 1
            /\ last.trace[k + 1].errors = last.trace[k].errors
         \/ /\ last.trace[k + 1].restored = last.trace[k].restored
            /\ Len(last.trace[k + 1].errors) = Len(last.trace[k].errors) + 1
            /\ last.trace[k + 1].fs = last.trace[k].fs
         \/ last.trace[k + 1] = last.trace[k]
    /\ Final(last).restored + Len(Final(last).errors) = Cardinality(Attempted(last))

C10_Witness ==
  /\ Restored
  /\ \E k \in 1..Len(last.input) :
       /\ Len(last.trace[k + 1].errors) = Len(last.trace[k].errors) + 1
       /\ Final(last).restored > last.trace[k + 1].restored

\* ------------------------------------------------------ claims on pairing
Paired == last.op = "find_pairs"
PlanMade == last.op = "generate_rename_plan"
\* the JPGs of jpg_files that have a fingerprint
Hashed == {j \in Range(jpg_files) : jpg_dir[j].fp.ok}
\* the distances from a RAW file's fingerprint to those JPGs
Distances(raw) == {Distance(RawHash(fs, raw), jpg_dir[j].fp) : j \in Hashed}
Min(S) == CHOOSE n \in S : \A m \in S : n <= m
PairsOfRaw(raw) == {i \in 1..Len(pairs) : pairs[i].raw = raw}
\* the place of a JPG in jpg_files
PlaceOf(j) == CHOOSE k \in 1..Len(jpg_files) : jpg_files[k] = j

\* C11: every pair find_pairs gave with the engine's threshold is also among
\* the pairs it gives, on the same files, with any larger threshold
C11_ThresholdMonotone ==
  Paired =>
    \A T2 \in 0..Infinity :
      T2 > similarity_threshold =>
        Range(pairs) \subseteq Range(FindPairsOf(raw_files, jpg_files, fs, T2))

\* find_pairs gave a pair, and a larger threshold gives one more
C11_Witness ==
  /\ Paired
  /\ Len(pairs) > 0
  /\ \E T2 \in 0..Infinity :
       /\ T2 > similarity_threshold
       /\ Len(FindPairsOf(raw_files, jpg_files, fs, T2)) > Len(pairs)

\* C12: no RAW file is in two pairs of the pair list
C12_OnePairPerRaw ==
  \A i, j \in 1..Len(pairs) : i # j => pairs[i].raw # pairs[j].raw

\* find_pairs paired two RAW files with the same JPG
C12_Witness ==
  /\ Paired
  /\ \E i, j \in 1..Len(pairs) : i # j /\ pairs[i].jpg = pairs[j].jpg

\* C13: after find_pairs a scanned RAW file has a pair exactly when it has a
\* fingerprint and the least distance to a JPG with a fingerprint is within
\* the threshold; the pair's JPG is at that least distance, which the pair records
C13_BestMatchUnderThreshold ==
  Paired =>
    \A raw \in Range(raw_files) :
      LET wanted == /\ RawHash(fs, raw).ok
                    /\ Hashed # {}
                    /\ Min(Distances(raw)) <= similarity_threshold
      IN  /\ wanted <=> PairsOfRaw(raw) # {}
          /\ \A i \in PairsOfRaw(raw) :
               /\ pairs[i].jpg \in Hashed
               /\ pairs[i].similarity = Min(Distances(raw))
               /\ Distance(RawHash(fs, raw), jpg_dir[pairs[i].jpg].fp)
                    = Min(Distances(raw))

\* one RAW file was paired, and another that has a fingerprint was left out
\* because its nearest JPG is beyond the threshold
C13_Witness ==
  /\ Paired
  /\ \E raw \in Range(raw_files) : PairsOfRaw(raw) # {}
  /\ \E raw \in Range(raw_files) :
       /\ RawHash(fs, raw).ok
       /\ Hashed # {}
       /\ Min(Distances(raw)) > similarity_threshold
       /\ PairsOfRaw(raw) = {}

\* C14: no JPG scanned before the JPG of a pair is as near to the pair's RAW
\* file as that JPG is
C14_TieFirstScanned ==
  Paired =>
    \A i \in 1..Len(pairs) :
      \A j \in Hashed :
        PlaceOf(j) < PlaceOf(pairs[i].jpg) =>
          Distance(RawHash(fs, pairs[i].raw), jpg_dir[j].fp) # pairs[i].similarity

\* a pair whose JPG has a later JPG at the same distance
C14_Witness ==
  /\ Paired
  /\ \E i \in 1..Len(pairs) :
       \E j \in Hashed :
         /\ PlaceOf(j) > PlaceOf(pairs[i].jpg)
         /\ Distance(RawHash(fs, pairs[i].raw), jpg_dir[j].fp) = pairs[i].similarity

\* C15: find_pairs does not raise; no pair has a file whose fingerprint
\* failed; the pairs are those find_pairs gives without the files that failed
C15_DecodeFailuresAbsorbed ==
  Paired =>
    /\ ~last.raised
    /\ \A i \in 1..Len(pairs) :
         RawHash(fs, pairs[i].raw).ok /\ jpg_dir[pairs[i].jpg].fp.ok
    /\ pairs = FindPairsOf(SelectSeq(raw_files, LAMBDA raw : RawHash(fs, raw).ok),
                           SelectSeq(jpg_files, LAMBDA j : jpg_dir[j].fp.ok),
                           fs, similarity_threshold)

\* a RAW file and a JPG failed, and the other RAW file was paired
C15_Witness ==
  /\ Paired
  /\ \E raw \in Range(raw_files) : ~RawHash(fs, raw).ok
  /\ \E j \in Range(jpg_files) : ~jpg_dir[j].fp.ok
  /\ Len(pairs) > 0

\* ------------------------------------------------------ claims on the plan
\* C16: the plan is, in the order of the pair list, one operation for some of
\* the pairs: from the pair's RAW file to the JPG's stem with the RAW file's
\* own suffix, in the RAW file's directory
C16_TargetDerivation ==
  PlanMade =>
    \E at \in [1..Len(rename_plan) -> 1..Len(pairs)] :
      /\ \A k, l \in 1..Len(rename_plan) : k < l => at[k] < at[l]
      /\ \A k \in 1..Len(rename_plan) :
           rename_plan[k] = <<pairs[at[k]].raw,
                              <<jpg_dir[pairs[at[k]].jpg].stem, pairs[at[k]].raw[2]>> >>

\* a plan of two operations, one of them for a file with an upper-case suffix
C16_Witness ==
  /\ PlanMade
  /\ Len(rename_plan) = 2
  /\ \E k \in 1..Len(rename_plan) :
       rename_plan[k][1][2] = ".CR2" /\ rename_plan[k][2][2] = ".CR2"

\* two pairs of one JPG whose RAW files differ in suffix, neither named as
\* its JPG yet, both targets free
SharedJpg(i, j) ==
  /\ i # j
  /\ pairs[i].jpg = pairs[j].jpg
  /\ pairs[i].raw[2] # pairs[j].raw[2]
  /\ \A k \in {i, j} :
       /\ pairs[k].raw[1] # jpg_dir[pairs[k].jpg].stem
       /\ fs[<<jpg_dir[pairs[k].jpg].stem, pairs[k].raw[2]>>] = NoFile

\* C17: two RAW files of different suffixes paired with the same JPG are
\* both planned, onto two different targets that have the JPG's stem
C17_JpgReuseNoCollision ==
  PlanMade =>
    \A i, j \in 1..Len(pairs) :
      SharedJpg(i, j) =>
        \E k, l \in 1..Len(rename_plan) :
          /\ rename_plan[k][1] = pairs[i].raw
          /\ rename_plan[l][1] = pairs[j].raw
          /\ rename_plan[k][2] # rename_plan[l][2]
          /\ rename_plan[k][2][1] = jpg_dir[pairs[i].jpg].stem
          /\ rename_plan[l][2][1] = jpg_dir[pairs[i].jpg].stem

\* the plan made for two such pairs
C17_Witness ==
  /\ PlanMade
  /\ \E i, j \in 1..Len(pairs) : SharedJpg(i, j)

\* ----------------------------------------------------- claims on scan_files
Scanned == last.op = "scan_files"
\* the names under a directory that are its direct children, regular files,
\* and have a suffix that in lower case is one of the extensions
Members(tree, extensions) ==
  {e \in tree : e.depth = 1 /\ e.is_file /\ Lower(e.suffix) \in extensions}
NoRepeat(list) == \A k, l \in 1..Len(list) : k # l => list[k] # list[l]

\* C18: scan_files on a RAW path or JPG path that is missing or is not a
\* directory raises the directory-not-found error, and neither list has
\* a file in it at any point of the call after the lists are emptied
C18_MissingDirectoryFails ==
  (Scanned /\ (~raw_is_dir \/ ~jpg_is_dir)) =>
    /\ last.raised
    /\ Final(last).error = "FileNotFoundError"
    /\ \A k \in 2..Len(last.trace) :
         last.trace[k].raw_files = <<>> /\ last.trace[k].jpg_files = <<>>

\* C19: after scan_files raised for a missing directory the engine's lists
\* are what they were when the call began
C19_FailedScanFrame ==
  (Scanned /\ last.raised /\ Final(last).error = "FileNotFoundError") =>
    /\ raw_files = last.trace[1].raw_files
    /\ jpg_files = last.trace[1].jpg_files

\* C20: after scan_files returned, raw_files is, without repeats, the direct
\* children of the RAW directory that are regular files with a RAW extension
\* in lower case, jpg_files the same of the JPG directory with a JPG
\* extension, no name is in both, and the counts returned are their lengths
C20_Classification ==
  (Scanned /\ ~last.raised) =>
    /\ Range(raw_files) =
         {<<e.stem, e.suffix>> : e \in Members(RawTree(fs, logs), RAW_EXTENSIONS)}
    /\ Range(jpg_files) =
         {j \in 1..Len(jpg_dir) : jpg_dir[j] \in Members(Range(jpg_dir), JPG_EXTENSIONS)}
    /\ NoRepeat(raw_files)
    /\ NoRepeat(jpg_files)
    /\ \A raw \in Range(raw_files), j \in Range(jpg_files) :
         raw # <<jpg_dir[j].stem, jpg_dir[j].suffix>>
    /\ Final(last).returned = <<Len(raw_files), Len(jpg_files)>>

\* a scan that returned, of a RAW directory that has a subdirectory, a JPG and
\* RAW files with an upper-case suffix, and of a JPG directory that has a
\* subdirectory, a RAW file and a JPG with an upper-case suffix
C20_Witness ==
  /\ Scanned
  /\ ~last.raised
  /\ \E e \in raw_other : ~e.is_file /\ e.depth = 1 /\ Lower(e.suffix) \in RAW_EXTENSIONS
  /\ \E e \in raw_other : e.is_file /\ e.depth = 1 /\ e.suffix \in JPG_EXTENSIONS
  /\ \E raw \in Range(raw_files) : raw[2] \notin RAW_EXTENSIONS
  /\ \E e \in Range(jpg_dir) : ~e.is_file /\ e.suffix \in JPG_EXTENSIONS
  /\ \E e \in Range(jpg_dir) : e.is_file /\ Lower(e.suffix) \in RAW_EXTENSIONS
  /\ \E j \in Range(jpg_files) : jpg_dir[j].suffix \notin JPG_EXTENSIONS

\* C21: after a scan_files call on an engine its lists are those of the most
\* recent call that returned: the files the directories hold, each once, when
\* this call returned, and what they were before the call when it raised
C21_ScanReplaces ==
  Scanned =>
    IF ~last.raised
    THEN /\ NoRepeat(raw_files)
         /\ NoRepeat(jpg_files)
         /\ Range(raw_files) = RawCandidates(fs, logs)
         /\ jpg_files = JpgLoop(jpg_dir, 1)
    ELSE /\ raw_files = last.trace[1].raw_files
         /\ jpg_files = last.trace[1].jpg_files

\* ----------------------------------------------------- claims on progress
\* C23: find_pairs calls progress_callback once for every file of jpg_files
\* and then once for every file of raw_files, in the lists' order, also for
\* files without a fingerprint; the k-th call has processed = k and
\* total = |JPG| + |RAW|, and the last call has processed = total
C23_ProgressSequence ==
  Paired =>
    LET calls == last.trace
        total == Len(jpg_files) + Len(raw_files)
    IN  /\ Len(calls) = total
        /\ \A k \in 1..Len(calls) :
             /\ calls[k].processed = k
             /\ calls[k].total = total
             /\ IF k <= Len(jpg_files)
                THEN calls[k].pass = "JPG" /\ calls[k].name = jpg_dir[jpg_files[k]].stem
                ELSE /\ calls[k].pass = "RAW"
                     /\ calls[k].name = raw_files[k - Len(jpg_files)][1]
        /\ \A k, l \in 1..Len(calls) :
             (calls[k].pass = "JPG" /\ calls[l].pass = "RAW") => k < l
        /\ Len(calls) > 0 => calls[Len(calls)].processed = calls[Len(calls)].total

\* find_pairs on two JPGs and two RAW files, one of each without a fingerprint
C23_Witness ==
  /\ Paired
  /\ Len(jpg_files) = 2
  /\ Len(raw_files) = 2
  /\ \E j \in Range(jpg_files) : ~jpg_dir[j].fp.ok
  /\ \E raw \in Range(raw_files) : ~RawHash(fs, raw).ok
  /\ Len(last.trace) = 4

\* ------------------------------------------------ claims on the rename batch
\* C26: every file the RAW directory held when execute_rename began is in it,
\* under some name, when execute_rename ends
C26_NoFileDestroyed ==
  Executed =>
    \A i \in FileIds :
      (\E p \in RawPaths : last.trace[1].fs[p] = i) =>
        (\E p \in RawPaths : Final(last).fs[p] = i)

\* ------------------------------------------------------ claims on the cycle
\* C22: the rename action never executes a plan that comes from a scan older
\* than the most recent one
C22_PlanOfCurrentCycle ==
  [][batches' = batches + 1 => ~stale.plan]_vars

\* --------------------------------------------- claims on the pairing worker
\* the workers that have not ended
Running == {i \in 1..Len(threads) : threads[i].pc # "done"}

\* C24: the progress bar is only ever set from the main context
C24_ProgressOnMainContext == progress.by = "main"

\* C25: at most one pairing worker thread is running at a time
C25_SingleWorker == Cardinality(Running) <= 1

\* C27: a worker that has stored a plan, or failed to, called
\* generate_rename_plan on the object its find_pairs call was made on
C27_PlanFromSamePairing ==
  \A i \in 1..Len(threads) :
    threads[i].pc \in {"finally", "done"} => threads[i].same_core

\* a worker that ended after find_pairs processed every file of its object
\* once, whose one outcome and then the progress reset the main loop has run
Completed(w) ==
  /\ w.pc = "done"
  /\ w.obj # -1
  /\ w.processed = w.total
  /\ Len(w.handed) = 2
  /\ w.handed[1] \in {"update_pairs_display", "showerror"}
  /\ w.handed[2] = "progress_reset"
  /\ w.run = w.handed

\* C28: every pairing worker that is started ends after processing each
\* scanned file once, and the main loop then runs its one outcome followed by
\* the reset of the progress bar
C28_PairingCompletes ==
  \A i \in 1..MaxWorkers :
    (Len(threads) >= i) ~> (Len(threads) >= i /\ Completed(threads[i]))

====
